---- MODULE Spec2Model ----
(***************************************************************************)
(* Model of the custom OAuth callback handler (httpTrigger) of the Static  *)
(* Web Apps emulator: request validation, token exchange, user-info        *)
(* retrieval, claims normalisation, roles lookup and the final response.   *)
(* Each action is one synchronous segment of the async handler, i.e. the   *)
(* code between two await points.                                          *)
(***************************************************************************)
EXTENDS Integers, Sequences, FiniteSets, TLC

\* ------------------------------------------------------------------ bounds
NumCallbacks == 2
MaxTime == 2
MaxRoles == 2

\* ------------------------------------------------------- program constants
\* time-to-live of a login nonce, in model clock ticks
NonceTTL == 1

SUPPORTED_CUSTOM_AUTH_PROVIDERS == {"google", "github", "aad", "facebook", "twitter"}

\* providers that have a token endpoint in the registry
CUSTOM_AUTH_TOKEN_ENDPOINT_MAPPING == SUPPORTED_CUSTOM_AUTH_PROVIDERS

CUSTOM_AUTH_ISS_MAPPING(p) == <<"issuer", p>>

\* ------------------------------------------------------------ input domains
Callbacks == 1..NumCallbacks

\* context.bindingData.provider as it arrives in the route
RawProviders == {"google", "github", "GitHub", "aad", "facebook", "twitter", "okta", "OKTA"}

Guids == {"g1", "g2"}
Nonces == [guid : Guids, issued : {0}]

\* an AuthContext is a mapping whose keys may be absent
AuthContexts ==
  { [k \in {} |-> 0] }
  \cup { [k \in {"authNonce"} |-> n] : n \in Nonces }
  \cup { [k \in {"postLoginRedirectUri"} |-> "/home"] }
  \cup { [k \in {"authNonce", "postLoginRedirectUri"} |->
            IF k = "authNonce" THEN n ELSE u] : n \in Nonces, u \in {"/home", ""} }

\* request.headers.cookie: absent, present with a bad signature (forged), or
\* present and validly signed; the value it carries decodes to an AuthContext
\* or to nothing (ctx = {})
Cookies ==
  { [kind |-> "none", ctx |-> {}] }
  \cup [kind : {"invalid", "valid"}, ctx : { {} } \cup { {a} : a \in AuthContexts }]

hashStateGuid(nonce) == <<"sha256", nonce.guid>>

\* the state query parameter: absent, the hash of a nonce, or a raw guid
StateValues == { <<>> } \cup { hashStateGuid(n) : n \in Nonces } \cup { <<"raw", "g1">> }

CodeValues == {"null", "good", "bad"}

\* request.url together with the Host header: either it does not parse as a
\* URL, or it parses and carries the code and state query parameters
Urls ==
  { [ok |-> FALSE, code |-> "null", state |-> <<>>] }
  \cup [ok : {TRUE}, code : CodeValues, state : StateValues]

\* customAuth: whether the provider's registration fields are present, and
\* the optional rolesSource path
CustomAuths == [configured : BOOLEAN, rolesSource : {"", "/api/roles"}]

Requests ==
  [provider : RawProviders, cookie : Cookies, url : Urls,
   customAuth : CustomAuths, now : 0..MaxTime]

NoRequest ==
  [provider |-> "", cookie |-> [kind |-> "none", ctx |-> {}],
   url |-> [ok |-> FALSE, code |-> "null", state |-> <<>>],
   customAuth |-> [configured |-> FALSE, rolesSource |-> ""], now |-> 0]

\* ------------------------------------------------------ network environment
\* What the token endpoint may answer: a transport error, or a body that
\* parses (as JSON, else as a query string) to a mapping with the given keys,
\* or the JSON text null.  A provider hands out a token only for a code it
\* issued.
TokenFields(code) ==
  IF code = "good" THEN SUBSET {"access_token", "id_token"} ELSE { {} }

TokenResponses(code) ==
  { [kind |-> "error", fields |-> {}], [kind |-> "jsonNull", fields |-> {}] }
  \cup [kind : {"json", "form"}, fields : TokenFields(code)]

\* Raw provider profiles; a key that is absent is undefined.  The nested
\* object data is flattened: the key "data" stands for the object and
\* "data.x" for its member x.
NestedKeys == {"data.username", "data.name", "data.id"}

Profiles ==
  { [k \in {"login", "name", "picture"} |->
       CASE k = "login" -> "alice" [] k = "name" -> "Alice A" [] OTHER -> "p.png"],
    [k \in {"login", "email", "given_name", "family_name", "id", "verified_email"} |->
       CASE k = "login" -> "" [] k = "email" -> "bob@example.com"
         [] k = "given_name" -> "Bob" [] k = "family_name" -> "B"
         [] k = "id" -> "42" [] OTHER -> "true"],
    [k \in {"data", "data.username", "data.name", "data.id"} |->
       CASE k = "data" -> "[object]" [] k = "data.username" -> "carol"
         [] k = "data.name" -> "Carol C" [] OTHER -> "7"],
    [k \in {"email", "name", "verified_email"} |->
       CASE k = "email" -> "dan@example.com" [] k = "name" -> "Dan D" [] OTHER -> ""],
    [k \in {} |-> ""] }

\* What the user-info endpoint may answer: transport error, a body that is
\* not JSON, the JSON text null, or a JSON profile
UserResponses ==
  { [kind |-> k, profile |-> [x \in {} |-> ""]] : k \in {"error", "nonJson", "jsonNull"} }
  \cup [kind : {"profile"}, profile : Profiles]

\* What jwtDecode may do with the facebook id_token: throw, or return the
\* token's payload
JwtResults ==
  { [kind |-> "error", profile |-> [x \in {} |-> ""]] }
  \cup [kind : {"profile"}, profile : Profiles]

RoleNames == {"admin", "authenticated"}

RoleLists == UNION { [1..n -> RoleNames] : n \in 0..MaxRoles }

\* What the roles endpoint may answer: transport error, non-JSON body, JSON
\* null, an object without roles, an object whose roles is not iterable, an
\* object whose roles is a string, or an object whose roles is an array
RolesResponses ==
  { [kind |-> k, roles |-> <<>>] :
      k \in {"error", "nonJson", "jsonNull", "noRoles", "notIterable"} }
  \cup { [kind |-> "string", roles |-> <<"a", "d">>] }
  \cup [kind : {"array"}, roles : RoleLists]

\* ------------------------------------------------------------ collaborators
\* lower-cases the provider identifier of the route
normalizeAuthProvider(p) ==
  CASE p = "GitHub" -> "github" [] p = "OKTA" -> "okta" [] OTHER -> p

validateAuthContextCookie(cookie) == cookie.kind = "valid"

\* {} when the cookie does not decode, else {the AuthContext}
decodeAuthContextCookie(cookie) == cookie.ctx

isNonceExpired(nonce, now) == now - nonce.issued > NonceTTL

\* the registration fields of the provider, {} when one is missing
checkCustomAuthConfigFields(providerName, customAuth) ==
  IF customAuth.configured
    THEN { [clientIdSettingName |-> <<"client-id", providerName>>] }
    ELSE {}

response(status, contentType, body, location, cookies) ==
  [status |-> status, contentType |-> contentType, body |-> body,
   location |-> location, cookies |-> cookies]

\* context.res before the handler has written it
NoResponse == response(0, "", <<>>, "", <<>>)

\* the error responses checkCustomAuthConfigFields may write by itself
ConfigErrorResponses ==
  { response(st, "text/plain", <<"config field not found">>, "", <<>>) : st \in {400, 404} }

encryptAndSign(value) == <<"encrypted", value>>

btoa(value) == <<"base64", value>>

JSONstringify(value) == <<"json", value>>

addCookieToDelete(cookies, name) ==
  Append(cookies, [op |-> "delete", name |-> name, value |-> {}])

addCookieToSet(cookies, name, value) ==
  Append(cookies, [op |-> "set", name |-> name, value |-> {value}])

\* ------------------------------------------------- getAuthClientPrincipal
\* faulty variant: the facebook branch is lost and access_token is read for every provider
ExtractToken_AlwaysAccessToken(authProvider, resp) ==
  IF resp.kind \in {"error", "jsonNull"}
    THEN ""
    ELSE IF "access_token" \in resp.fields THEN "tok" ELSE ""

\* the token read from the token endpoint's answer; "" when the answer has no
\* token in the expected field or when reading it throws
ExtractToken(authProvider, resp) ==
  IF resp.kind \in {"error", "jsonNull"}
    THEN ""
    ELSE IF authProvider # "facebook"
           THEN (IF "access_token" \in resp.fields THEN "tok" ELSE "")
           ELSE (IF "id_token" \in resp.fields THEN "tok" ELSE "")

\* user[k], "" standing for undefined and for every falsy value
Get(user, k) == IF k \in DOMAIN user THEN user[k] ELSE ""

\* a || b
Or(a, b) == IF a # "" THEN a ELSE b

\* claims.push({typ, val}) guarded by if (val)
PushIf(claims, typ, val) ==
  IF val # "" THEN Append(claims, [typ |-> typ, val |-> val]) ELSE claims

\* the top-level keys a profile can have, in the order Object.keys lists them
ProfileKeys ==
  <<"login", "email", "name", "given_name", "family_name", "picture", "id",
    "verified_email", "data">>

GithubTyp(k) ==
  CASE k = "login" -> "urn:github:login" [] k = "email" -> "urn:github:email"
    [] k = "name" -> "urn:github:name" [] k = "given_name" -> "urn:github:given_name"
    [] k = "family_name" -> "urn:github:family_name" [] k = "picture" -> "urn:github:picture"
    [] k = "id" -> "urn:github:id" [] k = "verified_email" -> "urn:github:verified_email"
    [] OTHER -> "urn:github:data"

RECURSIVE GithubClaims(_, _, _)
\* Object.keys(user).forEach(key => claims.push({typ: urn:github:key, val: user[key]}))
GithubClaims(claims, user, i) ==
  IF i > Len(ProfileKeys) THEN claims
  ELSE LET k == ProfileKeys[i]
       IN GithubClaims(IF k \in DOMAIN user
                         THEN Append(claims, [typ |-> GithubTyp(k), val |-> user[k]])
                         ELSE claims,
                       user, i + 1)

\* faulty variant: the raw keys are dumped as urn:github claims for every provider
NormalizeClaims_DumpAlways(authProvider, user, authConfigs) ==
  LET userDetails == Or(Get(user, "login"), Or(Get(user, "email"), Get(user, "data.username")))
      name == Or(Get(user, "name"), Get(user, "data.name"))
      userId == Or(Get(user, "id"), Get(user, "data.id"))
      c0 == << [typ |-> "iss", val |-> CUSTOM_AUTH_ISS_MAPPING(authProvider)],
               [typ |-> "azp", val |-> authConfigs.clientIdSettingName],
               [typ |-> "aud", val |-> authConfigs.clientIdSettingName] >>
      c1 == PushIf(c0, "http://schemas.xmlsoap.org/ws/2005/05/identity/claims/emailaddress", userDetails)
      c2 == PushIf(c1, "name", name)
      c3 == PushIf(c2, "picture", Get(user, "picture"))
      c4 == PushIf(c3, "http://schemas.xmlsoap.org/ws/2005/05/identity/claims/givenname", Get(user, "given_name"))
      c5 == PushIf(c4, "http://schemas.xmlsoap.org/ws/2005/05/identity/claims/surname", Get(user, "family_name"))
      c6 == PushIf(c5, "http://schemas.xmlsoap.org/ws/2005/05/identity/claims/nameidentifier", userId)
      c7 == PushIf(c6, "email_verified", Get(user, "verified_email"))
  IN GithubClaims(c7, user, 1)

\* the claim list built from the raw profile
NormalizeClaims(authProvider, user, authConfigs) ==
  LET userDetails == Or(Get(user, "login"), Or(Get(user, "email"), Get(user, "data.username")))
      name == Or(Get(user, "name"), Get(user, "data.name"))
      userId == Or(Get(user, "id"), Get(user, "data.id"))
      c0 == << [typ |-> "iss", val |-> CUSTOM_AUTH_ISS_MAPPING(authProvider)],
               [typ |-> "azp", val |-> authConfigs.clientIdSettingName],
               [typ |-> "aud", val |-> authConfigs.clientIdSettingName] >>
      c1 == PushIf(c0, "http://schemas.xmlsoap.org/ws/2005/05/identity/claims/emailaddress", userDetails)
      c2 == PushIf(c1, "name", name)
      c3 == PushIf(c2, "picture", Get(user, "picture"))
      c4 == PushIf(c3, "http://schemas.xmlsoap.org/ws/2005/05/identity/claims/givenname", Get(user, "given_name"))
      c5 == PushIf(c4, "http://schemas.xmlsoap.org/ws/2005/05/identity/claims/surname", Get(user, "family_name"))
      c6 == PushIf(c5, "http://schemas.xmlsoap.org/ws/2005/05/identity/claims/nameidentifier", userId)
      c7 == PushIf(c6, "email_verified", Get(user, "verified_email"))
  IN IF authProvider = "github" THEN GithubClaims(c7, user, 1) ELSE c7

DefaultRoles == <<"authenticated", "anonymous">>

\* faulty variant: a failed user-info step is read as an empty profile instead of
\* ending in the catch block
PrincipalFromUser_NoCatch(authProvider, userResp, authConfigs) ==
  LET user == userResp.profile
  IN { [identityProvider |-> authProvider,
        userDetails |-> Or(Get(user, "login"), Or(Get(user, "email"), Get(user, "data.username"))),
        claims |-> NormalizeClaims(authProvider, user, authConfigs),
        userRoles |-> DefaultRoles] }

\* the value getAuthClientPrincipal returns once the user-info step has
\* answered: {} for null, else {the principal}
PrincipalFromUser(authProvider, userResp, authConfigs) ==
  IF userResp.kind # "profile"
    THEN {}
    ELSE LET user == userResp.profile
         IN { [identityProvider |-> authProvider,
               userDetails |-> Or(Get(user, "login"), Or(Get(user, "email"), Get(user, "data.username"))),
               claims |-> NormalizeClaims(authProvider, user, authConfigs),
               userRoles |-> DefaultRoles] }

\* --------------------------------------------------------------- httpTrigger
\* faulty variant: the roles of the answer replace userRoles instead of being pushed
MergeRoles_Assign(principal, rolesResp) ==
  [principal EXCEPT !.userRoles = rolesResp.roles]

\* faulty variant: a role the principal already has is not pushed again
MergeRoles_Dedupe(principal, rolesResp) ==
  IF rolesResp.kind \in {"array", "string"}
    THEN [principal EXCEPT !.userRoles =
            @ \o SelectSeq(rolesResp.roles,
                           LAMBDA x : \A i \in DOMAIN principal.userRoles : principal.userRoles[i] # x)]
    ELSE principal

\* try { rolesResult = await getRoles(...); userRoles.push(...rolesResult.roles) } catch {}
MergeRoles(principal, rolesResp) ==
  IF rolesResp.kind \in {"array", "string"}
    THEN [principal EXCEPT !.userRoles = @ \o rolesResp.roles]
    ELSE principal

\* faulty variant: only the presence of the cookie header is checked, not its signature
Validate_AcceptForgedCookie(r) ==
  LET providerName == normalizeAuthProvider(r.provider)
      ctx == decodeAuthContextCookie(r.cookie)
  IN IF providerName \notin SUPPORTED_CUSTOM_AUTH_PROVIDERS THEN "provider"
     ELSE IF r.cookie.kind = "none" THEN "cookie"
     ELSE IF ~r.url.ok THEN "url"
     ELSE IF \/ ctx = {}
             \/ \E a \in ctx : \/ "authNonce" \notin DOMAIN a
                               \/ hashStateGuid(a["authNonce"]) # r.url.state
       THEN "nonce"
     ELSE IF \E a \in ctx : isNonceExpired(a["authNonce"], r.now) THEN "expired"
     ELSE IF checkCustomAuthConfigFields(providerName, r.customAuth) = {} THEN "config"
     ELSE "ok"

\* faulty variant: the state parameter is compared with the nonce itself, not its hash
Validate_NoHash(r) ==
  LET providerName == normalizeAuthProvider(r.provider)
      ctx == decodeAuthContextCookie(r.cookie)
  IN IF providerName \notin SUPPORTED_CUSTOM_AUTH_PROVIDERS THEN "provider"
     ELSE IF r.cookie.kind = "none" \/ ~validateAuthContextCookie(r.cookie) THEN "cookie"
     ELSE IF ~r.url.ok THEN "url"
     ELSE IF \/ ctx = {}
             \/ \E a \in ctx : \/ "authNonce" \notin DOMAIN a
                               \/ <<"raw", a["authNonce"].guid>> # r.url.state
       THEN "nonce"
     ELSE IF \E a \in ctx : isNonceExpired(a["authNonce"], r.now) THEN "expired"
     ELSE IF checkCustomAuthConfigFields(providerName, r.customAuth) = {} THEN "config"
     ELSE "ok"

\* faulty variant: the expiry of the nonce is not checked
Validate_SkipExpiry(r) ==
  LET providerName == normalizeAuthProvider(r.provider)
      ctx == decodeAuthContextCookie(r.cookie)
  IN IF providerName \notin SUPPORTED_CUSTOM_AUTH_PROVIDERS THEN "provider"
     ELSE IF r.cookie.kind = "none" \/ ~validateAuthContextCookie(r.cookie) THEN "cookie"
     ELSE IF ~r.url.ok THEN "url"
     ELSE IF \/ ctx = {}
             \/ \E a \in ctx : \/ "authNonce" \notin DOMAIN a
                               \/ hashStateGuid(a["authNonce"]) # r.url.state
       THEN "nonce"
     ELSE IF checkCustomAuthConfigFields(providerName, r.customAuth) = {} THEN "config"
     ELSE "ok"

\* faulty variant: the expiry of the nonce is checked before the nonce is
\* compared with the state
Validate_ExpiryBeforeState(r) ==
  LET providerName == normalizeAuthProvider(r.provider)
      ctx == decodeAuthContextCookie(r.cookie)
  IN IF providerName \notin SUPPORTED_CUSTOM_AUTH_PROVIDERS THEN "provider"
     ELSE IF r.cookie.kind = "none" \/ ~validateAuthContextCookie(r.cookie) THEN "cookie"
     ELSE IF ~r.url.ok THEN "url"
     ELSE IF \E a \in ctx : "authNonce" \in DOMAIN a /\ isNonceExpired(a["authNonce"], r.now)
       THEN "expired"
     ELSE IF \/ ctx = {}
             \/ \E a \in ctx : \/ "authNonce" \notin DOMAIN a
                               \/ hashStateGuid(a["authNonce"]) # r.url.state
       THEN "nonce"
     ELSE IF checkCustomAuthConfigFields(providerName, r.customAuth) = {} THEN "config"
     ELSE "ok"

\* the first validation step the request fails, "url" when building the URL
\* throws, "ok" when it passes them all
Validate(r) ==
  LET providerName == normalizeAuthProvider(r.provider)
      ctx == decodeAuthContextCookie(r.cookie)
  IN IF providerName \notin SUPPORTED_CUSTOM_AUTH_PROVIDERS THEN "provider"
     ELSE IF r.cookie.kind = "none" \/ ~validateAuthContextCookie(r.cookie) THEN "cookie"
     ELSE IF ~r.url.ok THEN "url"
     ELSE IF \/ ctx = {}
             \/ \E a \in ctx : \/ "authNonce" \notin DOMAIN a
                               \/ hashStateGuid(a["authNonce"]) # r.url.state
       THEN "nonce"
     ELSE IF \E a \in ctx : isNonceExpired(a["authNonce"], r.now) THEN "expired"
     ELSE IF checkCustomAuthConfigFields(providerName, r.customAuth) = {} THEN "config"
     ELSE "ok"

\* faulty variant: the 400 body names the provider as it came in the route
ErrorResponse_RawProvider(step, r) ==
  CASE step = "provider" ->
         response(400, "text/plain", <<"Provider '", r.provider, "' not found">>, "", <<>>)
    [] step = "expired" ->
         response(401, "text/plain", <<"Login timed out. Please try again.">>, "", <<>>)
    [] OTHER ->
         response(401, "text/plain", <<"Invalid login request">>, "", <<>>)

\* the response of a request that failed the given validation step
ErrorResponse(step, r) ==
  CASE step = "provider" ->
         response(400, "text/plain",
                  <<"Provider '", normalizeAuthProvider(r.provider), "' not found">>, "", <<>>)
    [] step = "expired" ->
         response(401, "text/plain", <<"Login timed out. Please try again.">>, "", <<>>)
    [] OTHER ->
         response(401, "text/plain", <<"Invalid login request">>, "", <<>>)

\* faulty variant: JSON.stringify is applied to a null principal too, and the string
\* "null" is encrypted and set as the session cookie
FinalCookies_StringifyNull(principalOpt) ==
  LET deleted == addCookieToDelete(<<>>, "StaticWebAppsAuthContextCookie")
  IN IF principalOpt # {}
       THEN LET p == CHOOSE x \in principalOpt : TRUE
            IN addCookieToSet(deleted, "StaticWebAppsAuthCookie",
                              btoa(encryptAndSign(JSONstringify(p))))
       ELSE addCookieToSet(deleted, "StaticWebAppsAuthCookie",
                           btoa(encryptAndSign(JSONstringify("null"))))

\* faulty variant: the auth-context cookie is deleted only together with setting the
\* session cookie
FinalCookies_DeleteOnlyWithPrincipal(principalOpt) ==
  IF principalOpt # {}
    THEN LET p == CHOOSE x \in principalOpt : TRUE
         IN addCookieToSet(addCookieToDelete(<<>>, "StaticWebAppsAuthContextCookie"),
                           "StaticWebAppsAuthCookie", btoa(encryptAndSign(JSONstringify(p))))
    ELSE <<>>

\* the cookies of the final response
FinalCookies(principalOpt) ==
  LET deleted == addCookieToDelete(<<>>, "StaticWebAppsAuthContextCookie")
  IN IF principalOpt # {}
       THEN LET p == CHOOSE x \in principalOpt : TRUE
            IN addCookieToSet(deleted, "StaticWebAppsAuthCookie",
                              btoa(encryptAndSign(JSONstringify(p))))
       ELSE deleted

\* faulty variant: || instead of ??, an empty redirect URI becomes "/"
RedirectLocation_OrRoot(authContext) ==
  IF "postLoginRedirectUri" \in DOMAIN authContext /\ authContext["postLoginRedirectUri"] # ""
    THEN authContext["postLoginRedirectUri"] ELSE "/"

\* authContext.postLoginRedirectUri ?? "/"
RedirectLocation(authContext) ==
  IF "postLoginRedirectUri" \in DOMAIN authContext
    THEN authContext["postLoginRedirectUri"] ELSE "/"

FinalResponse(authContext, principalOpt) ==
  response(302, "", <<>>, RedirectLocation(authContext), FinalCookies(principalOpt))

\* -------------------------------------------------------------------- state
VARIABLES
  pc,               \* where each callback stands: idle, awaitToken, awaitUser,
                    \* awaitRoles, done (returned) or threw (rejected)
  req,              \* the request each callback was invoked with
  res,              \* context.res of each callback
  authToken,        \* authToken of getAuthClientPrincipal
  clientPrincipal,  \* clientPrincipal of httpTrigger: {} for null
  calls,            \* the outbound calls each callback has started, in order
  inflight,         \* the outbound calls started and not yet answered
  tokenResp,        \* what the token endpoint answered: {} before it has
  userResp,         \* what the user-info step answered: {} before it has
  rolesResp         \* what the roles endpoint answered: {} before it has

VARIABLES
  loginPc,          \* where swa login stands: idle, authenticate,
                    \* tryGetAzTenantAndSubscription, listTenants, chooseTenant,
                    \* reauthenticate, listSubscriptions, chooseSubscription,
                    \* store or done
  loginArgs,        \* the options loginCommand was called with
  options,          \* options of login, as the steps have changed them
  azureProfile,     \* the file AZURE_LOGIN_CONFIG
  envFile,          \* the lines of the file ENV_FILENAME: <<key, value>> each
  credentialChain,  \* credentialChain: {} before authentication
  tenantId,         \* tenantId of setupProjectCredentials: "" for undefined
  subscriptionId,   \* subscriptionId of setupProjectCredentials
  tenants,          \* what listTenants returned: {} before it has
  subscriptions,    \* what listSubscriptions returned: {} before it has
  loginCalls,       \* the collaborators swa login has called, in order
  report,           \* what loginCommand logged: none, success, failed, error
  result            \* what login returned

callbackVars == <<pc, req, res, authToken, clientPrincipal, calls, inflight,
                  tokenResp, userResp, rolesResp>>

loginVars == <<loginPc, loginArgs, options, azureProfile, envFile, credentialChain,
               tenantId, subscriptionId, tenants, subscriptions, loginCalls,
               report, result>>

vars == <<callbackVars, loginVars>>

answers == <<tokenResp, userResp, rolesResp>>

providerNameOf(c) == normalizeAuthProvider(req[c].provider)

authContextOf(c) == CHOOSE a \in decodeAuthContextCookie(req[c].cookie) : TRUE

authConfigsOf(c) ==
  CHOOSE a \in checkCustomAuthConfigFields(providerNameOf(c), req[c].customAuth) : TRUE

InitCallbacks ==
  /\ pc = [c \in Callbacks |-> "idle"]
  /\ req = [c \in Callbacks |-> NoRequest]
  /\ res = [c \in Callbacks |-> NoResponse]
  /\ authToken = [c \in Callbacks |-> ""]
  /\ clientPrincipal = [c \in Callbacks |-> {}]
  /\ calls = [c \in Callbacks |-> <<>>]
  /\ inflight = [c \in Callbacks |-> {}]
  /\ tokenResp = [c \in Callbacks |-> {}]
  /\ userResp = [c \in Callbacks |-> {}]
  /\ rolesResp = [c \in Callbacks |-> {}]

\* no swa login runs next to the callbacks; the two files are absent
NoOptions == [tenantId |-> "", subscriptionId |-> "", clientId |-> "", clientSecret |-> ""]

NoResult == [credentialChain |-> {}, subscriptionId |-> ""]

LoginNotStarted ==
  /\ loginPc = "idle"
  /\ loginArgs = NoOptions
  /\ options = NoOptions
  /\ credentialChain = {}
  /\ tenantId = ""
  /\ subscriptionId = ""
  /\ tenants = {}
  /\ subscriptions = {}
  /\ loginCalls = <<>>
  /\ report = "none"
  /\ result = NoResult

Init ==
  /\ InitCallbacks
  /\ LoginNotStarted
  /\ azureProfile = [kind |-> "missing", subscriptions |-> <<>>]
  /\ envFile = <<>>

\* https.request / http.request: the call `answered` has completed and the
\* call `kind` leaves; the handler waits for it at `next`
CallNext(c, answered, kind, next, principalOpt) ==
  /\ calls' = [calls EXCEPT ![c] = Append(@, kind)]
  /\ inflight' = [inflight EXCEPT ![c] = (@ \ {answered}) \cup {kind}]
  /\ pc' = [pc EXCEPT ![c] = next]
  /\ clientPrincipal' = [clientPrincipal EXCEPT ![c] = principalOpt]
  /\ UNCHANGED res

\* lines 412-439: the cookies and the 302 response, then the handler returns
Returns(c, answered, authContext, principalOpt) ==
  /\ res' = [res EXCEPT ![c] = FinalResponse(authContext, principalOpt)]
  /\ clientPrincipal' = [clientPrincipal EXCEPT ![c] = principalOpt]
  /\ inflight' = [inflight EXCEPT ![c] = @ \ {answered}]
  /\ pc' = [pc EXCEPT ![c] = "done"]
  /\ UNCHANGED calls

\* faulty variant: the roles call leaves whenever a roles source is
\* configured, with or without a principal
AfterPrincipal_RolesWithoutPrincipal(c, answered, principalOpt) ==
  IF req[c].customAuth.rolesSource # ""
    THEN CallNext(c, answered, "roles", "awaitRoles", principalOpt)
    ELSE Returns(c, answered, authContextOf(c), principalOpt)

\* lines 405-410: with a principal and a roles source the roles call leaves,
\* otherwise the handler goes on to the response
AfterPrincipal(c, answered, principalOpt) ==
  IF principalOpt # {} /\ req[c].customAuth.rolesSource # ""
    THEN CallNext(c, answered, "roles", "awaitRoles", principalOpt)
    ELSE Returns(c, answered, authContextOf(c), principalOpt)

\* httpTrigger is invoked with a request that fails one of the checks that
\* answer with an error response
Reject(c, r) ==
  /\ pc[c] = "idle"
  /\ Validate(r) \in {"provider", "cookie", "nonce", "expired"}
  /\ req' = [req EXCEPT ![c] = r]
  /\ res' = [res EXCEPT ![c] = ErrorResponse(Validate(r), r)]
  /\ pc' = [pc EXCEPT ![c] = "done"]
  /\ UNCHANGED <<authToken, clientPrincipal, calls, inflight, answers, loginVars>>

\* httpTrigger is invoked with a request whose URL does not parse: new URL
\* throws and the handler rejects
UrlThrows(c, r) ==
  /\ pc[c] = "idle"
  /\ Validate(r) = "url"
  /\ req' = [req EXCEPT ![c] = r]
  /\ pc' = [pc EXCEPT ![c] = "threw"]
  /\ UNCHANGED <<res, authToken, clientPrincipal, calls, inflight, answers, loginVars>>

\* httpTrigger is invoked with a request for a provider whose configuration
\* is incomplete: checkCustomAuthConfigFields returns nothing, having written
\* an error response or not, and the handler returns
ConfigAbort(c, r) ==
  /\ pc[c] = "idle"
  /\ Validate(r) = "config"
  /\ req' = [req EXCEPT ![c] = r]
  /\ \E written \in ConfigErrorResponses \cup {NoResponse} :
       res' = [res EXCEPT ![c] = written]
  /\ pc' = [pc EXCEPT ![c] = "done"]
  /\ UNCHANGED <<authToken, clientPrincipal, calls, inflight, answers, loginVars>>

\* httpTrigger is invoked with a request that passes validation:
\* getAuthClientPrincipal calls getOAuthToken, which posts to the token
\* endpoint (or returns null for a provider without one, and then the
\* principal is null)
Accept(c, r) ==
  /\ pc[c] = "idle"
  /\ Validate(r) = "ok"
  /\ req' = [req EXCEPT ![c] = r]
  /\ UNCHANGED <<authToken, answers, loginVars>>
  /\ IF normalizeAuthProvider(r.provider) \in CUSTOM_AUTH_TOKEN_ENDPOINT_MAPPING
       THEN CallNext(c, "none", "token", "awaitToken", {})
       ELSE Returns(c, "none", CHOOSE a \in decodeAuthContextCookie(r.cookie) : TRUE, {})

\* the token endpoint answers (or the request errors); without a token the
\* principal is null, with one getOAuthUser runs: jwtDecode for facebook, a
\* GET to the user-info endpoint for the others
TokenAnswer(c, resp, jwt) ==
  /\ pc[c] = "awaitToken"
  /\ LET token == ExtractToken(providerNameOf(c), resp)
     IN /\ authToken' = [authToken EXCEPT ![c] = token]
        /\ IF token = ""
             THEN Returns(c, "token", authContextOf(c), {})
             ELSE IF providerNameOf(c) = "facebook"
               THEN AfterPrincipal(c, "token",
                      PrincipalFromUser(providerNameOf(c), jwt, authConfigsOf(c)))
               ELSE CallNext(c, "token", "user", "awaitUser", {})
        /\ userResp' = [userResp EXCEPT ![c] =
                          IF token # "" /\ providerNameOf(c) = "facebook" THEN {jwt} ELSE {}]
  /\ tokenResp' = [tokenResp EXCEPT ![c] = {resp}]
  /\ UNCHANGED <<req, rolesResp, loginVars>>

\* the user-info endpoint answers (or the request errors): the principal is
\* built from the profile, or is null
UserAnswer(c, answer) ==
  /\ pc[c] = "awaitUser"
  /\ AfterPrincipal(c, "user",
       PrincipalFromUser(providerNameOf(c), answer, authConfigsOf(c)))
  /\ userResp' = [userResp EXCEPT ![c] = {answer}]
  /\ UNCHANGED <<req, authToken, tokenResp, rolesResp, loginVars>>

\* faulty variant: the principal is kept in a variable of the module, shared
\* by all callbacks, so the roles are merged into whichever principal it holds
RolesAnswer_SharedPrincipal(c, answer) ==
  /\ pc[c] = "awaitRoles"
  /\ LET held == UNION { clientPrincipal[d] : d \in Callbacks }
     IN Returns(c, "roles", authContextOf(c),
                { MergeRoles(CHOOSE p \in held : TRUE, answer) })
  /\ rolesResp' = [rolesResp EXCEPT ![c] = {answer}]
  /\ UNCHANGED <<req, authToken, tokenResp, userResp, loginVars>>

\* the roles endpoint answers (or the request errors): the roles are merged
\* into the principal, or the failure is swallowed
RolesAnswer(c, answer) ==
  /\ pc[c] = "awaitRoles"
  /\ Returns(c, "roles", authContextOf(c),
       { MergeRoles(p, answer) : p \in clientPrincipal[c] })
  /\ rolesResp' = [rolesResp EXCEPT ![c] = {answer}]
  /\ UNCHANGED <<req, authToken, tokenResp, userResp, loginVars>>

\* Spec follows one invocation of httpTrigger through all its inputs and all
\* answers of the network; the other callbacks stay idle
Solo == {1}

Next ==
  \E c \in Solo :
    \/ pc[c] = "idle" /\ \E r \in Requests : Reject(c, r)
    \/ pc[c] = "idle" /\ \E r \in Requests : UrlThrows(c, r)
    \/ pc[c] = "idle" /\ \E r \in Requests : ConfigAbort(c, r)
    \/ pc[c] = "idle" /\ \E r \in Requests : Accept(c, r)
    \/ pc[c] = "awaitToken" /\ \E resp \in TokenResponses(req[c].url.code), jwt \in JwtResults :
                                 TokenAnswer(c, resp, jwt)
    \/ pc[c] = "awaitUser" /\ \E answer \in UserResponses : UserAnswer(c, answer)
    \/ pc[c] = "awaitRoles" /\ \E answer \in RolesResponses : RolesAnswer(c, answer)

Spec == Init /\ [][Next]_vars

\* ------------------------------------------------------ concurrent callbacks
\* the requests and answers followed when several callbacks interleave at
\* their await points: two logins that pass validation (github with a roles
\* source, facebook without), and one request for each way of ending early
ValidRequest(provider, guid, redirect, rolesSource) ==
  [provider |-> provider,
   cookie |-> [kind |-> "valid",
               ctx |-> { [k \in {"authNonce", "postLoginRedirectUri"} |->
                           IF k = "authNonce" THEN [guid |-> guid, issued |-> 0] ELSE redirect] }],
   url |-> [ok |-> TRUE, code |-> "good", state |-> <<"sha256", guid>>],
   customAuth |-> [configured |-> TRUE, rolesSource |-> rolesSource],
   now |-> 0]

ConcRequests ==
  { ValidRequest("github", "g1", "/home", "/api/roles"),
    ValidRequest("facebook", "g2", "", ""),
    [ValidRequest("okta", "g1", "/home", "") EXCEPT !.cookie.kind = "invalid"],
    [ValidRequest("github", "g1", "/home", "") EXCEPT !.url.ok = FALSE],
    [ValidRequest("github", "g1", "/home", "") EXCEPT !.customAuth.configured = FALSE] }

ConcTokenResponses ==
  { [kind |-> "error", fields |-> {}],
    [kind |-> "json", fields |-> {"access_token", "id_token"}] }

ConcProfiles ==
  { [kind |-> "error", profile |-> [x \in {} |-> ""]] }
  \cup { [kind |-> "profile", profile |-> p] :
           p \in { q \in Profiles : "name" \in DOMAIN q } }

ConcRolesResponses ==
  { [kind |-> "error", roles |-> <<>>], [kind |-> "array", roles |-> <<"admin">>] }

NextConc ==
  \E c \in Callbacks :
    \/ pc[c] = "idle" /\ \E r \in ConcRequests : Reject(c, r)
    \/ pc[c] = "idle" /\ \E r \in ConcRequests : UrlThrows(c, r)
    \/ pc[c] = "idle" /\ \E r \in ConcRequests : ConfigAbort(c, r)
    \/ pc[c] = "idle" /\ \E r \in ConcRequests : Accept(c, r)
    \/ pc[c] = "awaitToken" /\ \E resp \in ConcTokenResponses, jwt \in ConcProfiles :
                                 TokenAnswer(c, resp, jwt)
    \/ pc[c] = "awaitUser" /\ \E answer \in ConcProfiles : UserAnswer(c, answer)
    \/ pc[c] = "awaitRoles" /\ \E answer \in ConcRolesResponses : RolesAnswer(c, answer)

SpecConc == Init /\ [][NextConc]_vars

\* ------------------------------------------------------------------ swa login
\* the longest azure profile, tenant list and subscription list followed
MaxListed == 2

SeqsUpTo(S, n) == UNION { [1..k -> S] : k \in 0..n }

\* the options of the command line; "" stands for undefined
LoginOptions ==
  [tenantId : {"", "t1"}, subscriptionId : {"", "s1"},
   clientId : {"", "c1"}, clientSecret : {"", "p1"}]

\* the file AZURE_LOGIN_CONFIG: missing, not readable as JSON, JSON without a
\* subscriptions list, or JSON with the subscriptions the az CLI wrote
AzureSubscriptions ==
  { [isDefault |-> d, tenantId |-> e[1], id |-> e[2]] :
      d \in BOOLEAN, e \in { <<"t2", "s2">>, <<"t3", "s3">> } }

AzureProfiles ==
  { [kind |-> k, subscriptions |-> <<>>] : k \in {"missing", "unreadable", "noSubscriptions"} }
  \cup [kind : {"json"}, subscriptions : SeqsUpTo(AzureSubscriptions, MaxListed)]

\* the file ENV_FILENAME before the command runs; no lines when it is missing.
\* The file with AZURE_TENANT_ID twice is what earlier runs for tenant t1 and
\* then for tenant t4 leave behind
EnvFiles ==
  { <<>>,
    << <<"AZURE_TENANT_ID", "t1">>, <<"AZURE_TENANT_ID", "t4">> >>,
    << <<"FOO", "bar">> >>,
    << <<"AZURE_TENANT_ID", "t1">>, <<"FOO", "bar">> >>,
    << <<"FOO", "old">>, <<"AZURE_SUBSCRIPTION_ID", "s3">>, <<"FOO", "bar">> >> }

\* what listTenants and listSubscriptions answer: a list, or a rejection
TenantLists == SeqsUpTo({"t1", "t4"}, MaxListed)

SubscriptionLists == SeqsUpTo({"s1", "s4"}, MaxListed)

ListResults(lists) ==
  { [kind |-> "throw", items |-> <<>>] } \cup [kind : {"ok"}, items : lists]

\* authenticateWithAzureIdentity followed by getToken: a token, no token, or
\* one of the two rejects
AuthOutcomes == {"token", "noToken", "authThrows", "tokenThrows"}

\* allSubscriptions.find(subscription => subscription.isDefault == true): {}
\* for undefined
FindDefault(allSubscriptions) ==
  LET hits == { i \in DOMAIN allSubscriptions : allSubscriptions[i].isDefault }
  IN IF hits = {} THEN {}
     ELSE { allSubscriptions[CHOOSE i \in hits : \A j \in hits : i <= j] }

\* faulty variant: the default subscription fills only what the caller left out
tryGetAzTenantAndSubscription_KeepSupplied(opts, profile) ==
  IF profile.kind # "json" THEN opts
  ELSE LET found == FindDefault(profile.subscriptions)
       IN IF found = {} THEN opts
          ELSE LET defaultAzureInfo == CHOOSE d \in found : TRUE
               IN [opts EXCEPT
                     !.tenantId = IF @ = "" THEN defaultAzureInfo.tenantId ELSE @,
                     !.subscriptionId = IF @ = "" THEN defaultAzureInfo.id ELSE @]

tryGetAzTenantAndSubscription(opts, profile) ==
  IF profile.kind = "missing" THEN opts
  ELSE IF profile.kind = "unreadable" THEN opts
  ELSE IF profile.kind = "noSubscriptions" THEN opts
  ELSE LET found == FindDefault(profile.subscriptions)
       IN IF found = {} THEN opts
          ELSE LET defaultAzureInfo == CHOOSE d \in found : TRUE
               IN [opts EXCEPT !.tenantId = defaultAzureInfo.tenantId,
                               !.subscriptionId = defaultAzureInfo.id]

\* dotenv.parse over the first n lines: one entry per key, in the order the
\* keys first appear, each with the value of its last line
RECURSIVE dotenvParse(_, _)
dotenvParse(lines, n) ==
  IF n = 0 THEN <<>>
  ELSE LET config == dotenvParse(lines, n - 1)
           line == lines[n]
       IN IF \E i \in DOMAIN config : config[i][1] = line[1]
          THEN [i \in DOMAIN config |-> IF config[i][1] = line[1] THEN line ELSE config[i]]
          ELSE Append(config, line)

oldEnvFileLines(envFileContent) == dotenvParse(envFileContent, Len(envFileContent))

\* envFileContent.includes(entry); keys and values are atoms, none a part of
\* another, so the text holds the entry exactly when a line is the entry
includes(envFileContent, entry) ==
  \E i \in DOMAIN envFileContent : envFileContent[i] = entry

newEnvFileLines(envFileContent, subId, tenId, clientId, clientSecret) ==
  LET push(acc, key, value) ==
        IF value # "" /\ ~includes(envFileContent, <<key, value>>)
        THEN Append(acc, <<key, value>>) ELSE acc
  IN push(push(push(push(<<>>, "AZURE_SUBSCRIPTION_ID", subId),
                    "AZURE_TENANT_ID", tenId),
               "AZURE_CLIENT_ID", clientId),
          "AZURE_CLIENT_SECRET", clientSecret)

\* faulty variant: a credential chain alone counts as success
Report_CredentialOnly(r) ==
  IF r.credentialChain # {} THEN "success" ELSE "failed"

\* what loginCommand logs for the value login returned
Report(r) ==
  IF r.credentialChain # {} /\ r.subscriptionId # "" THEN "success" ELSE "failed"

\* a rejection or a throw inside login reaches the catch of loginCommand
Caught ==
  /\ loginPc' = "done"
  /\ report' = "error"
  /\ UNCHANGED result

\* the subscription half of setupProjectCredentials starts
ResolveSubscription(subId, log) ==
  IF subId = ""
  THEN loginPc' = "listSubscriptions" /\ loginCalls' = Append(log, "listSubscriptions")
  ELSE loginPc' = "store" /\ loginCalls' = log

loginCommand(o) ==
  /\ loginPc = "idle"
  /\ loginPc' = "authenticate"
  /\ loginArgs' = o
  /\ options' = o
  /\ loginCalls' = Append(loginCalls, "authenticateWithAzureIdentity")
  /\ UNCHANGED <<azureProfile, envFile, credentialChain, tenantId, subscriptionId,
                 tenants, subscriptions, report, result>>
  /\ UNCHANGED callbackVars

Authenticated(outcome) ==
  /\ loginPc = "authenticate"
  /\ IF outcome = "authThrows"
     THEN Caught /\ UNCHANGED <<credentialChain, loginCalls>>
     ELSE /\ credentialChain' = { <<"credential", options.tenantId>> }
          /\ loginCalls' = Append(loginCalls, "getToken")
          /\ IF outcome = "tokenThrows"
             THEN Caught
             ELSE loginPc' = "tryGetAzTenantAndSubscription" /\ UNCHANGED <<report, result>>
  /\ UNCHANGED <<loginArgs, options, azureProfile, envFile, tenantId, subscriptionId,
                 tenants, subscriptions>>
  /\ UNCHANGED callbackVars

\* login from line 47 up to the first await of setupProjectCredentials
ProfileRead ==
  /\ loginPc = "tryGetAzTenantAndSubscription"
  /\ options' = tryGetAzTenantAndSubscription(options, azureProfile)
  /\ tenantId' = options'.tenantId
  /\ subscriptionId' = options'.subscriptionId
  /\ LET log == loginCalls \o (IF azureProfile.kind = "missing"
                               THEN <<"pathExists">> ELSE <<"pathExists", "safeReadJson">>)
     IN IF tenantId' = ""
        THEN loginPc' = "listTenants" /\ loginCalls' = Append(log, "listTenants")
        ELSE ResolveSubscription(subscriptionId', log)
  /\ UNCHANGED <<loginArgs, azureProfile, envFile, credentialChain, tenants,
                 subscriptions, report, result>>
  /\ UNCHANGED callbackVars

TenantsListed(r) ==
  /\ loginPc = "listTenants"
  /\ IF r.kind = "throw"
     THEN Caught /\ UNCHANGED <<tenants, tenantId, loginCalls>>
     ELSE /\ tenants' = { r.items }
          /\ IF Len(r.items) = 0
             THEN Caught /\ UNCHANGED <<tenantId, loginCalls>>
             ELSE IF Len(r.items) = 1
             THEN /\ tenantId' = r.items[1]
                  /\ ResolveSubscription(subscriptionId, loginCalls)
                  /\ UNCHANGED <<report, result>>
             ELSE /\ loginPc' = "chooseTenant"
                  /\ loginCalls' = Append(loginCalls, "chooseTenant")
                  /\ UNCHANGED <<tenantId, report, result>>
  /\ UNCHANGED <<loginArgs, options, azureProfile, envFile, credentialChain,
                 subscriptionId, subscriptions>>
  /\ UNCHANGED callbackVars

\* chooseTenant answers one of the tenants, or undefined
TenantChosen(t) ==
  /\ loginPc = "chooseTenant"
  /\ \E list \in tenants : t = "" \/ \E i \in DOMAIN list : list[i] = t
  /\ tenantId' = t
  /\ loginPc' = "reauthenticate"
  /\ loginCalls' = Append(loginCalls, "authenticateWithAzureIdentity")
  /\ UNCHANGED <<loginArgs, options, azureProfile, envFile, credentialChain,
                 subscriptionId, tenants, subscriptions, report, result>>
  /\ UNCHANGED callbackVars

Reauthenticated(outcome) ==
  /\ loginPc = "reauthenticate"
  /\ IF outcome = "authThrows"
     THEN Caught /\ UNCHANGED <<credentialChain, loginCalls>>
     ELSE /\ credentialChain' = { <<"credential", tenantId>> }
          /\ IF outcome = "tokenThrows"
             THEN Caught /\ loginCalls' = Append(loginCalls, "getToken")
             ELSE /\ ResolveSubscription(subscriptionId, Append(loginCalls, "getToken"))
                  /\ UNCHANGED <<report, result>>
  /\ UNCHANGED <<loginArgs, options, azureProfile, envFile, tenantId, subscriptionId,
                 tenants, subscriptions>>
  /\ UNCHANGED callbackVars

SubscriptionsListed(r) ==
  /\ loginPc = "listSubscriptions"
  /\ IF r.kind = "throw"
     THEN Caught /\ UNCHANGED <<subscriptions, subscriptionId, loginCalls>>
     ELSE /\ subscriptions' = { r.items }
          /\ IF Len(r.items) = 0
             THEN Caught /\ UNCHANGED <<subscriptionId, loginCalls>>
             ELSE IF Len(r.items) = 1
             THEN /\ subscriptionId' = r.items[1]
                  /\ loginPc' = "store"
                  /\ UNCHANGED <<loginCalls, report, result>>
             ELSE /\ loginPc' = "chooseSubscription"
                  /\ loginCalls' = Append(loginCalls, "chooseSubscription")
                  /\ UNCHANGED <<subscriptionId, report, result>>
  /\ UNCHANGED <<loginArgs, options, azureProfile, envFile, credentialChain,
                 tenantId, tenants>>
  /\ UNCHANGED callbackVars

\* chooseSubscription answers one of the subscriptions, or undefined
SubscriptionChosen(sub) ==
  /\ loginPc = "chooseSubscription"
  /\ \E list \in subscriptions : sub = "" \/ \E i \in DOMAIN list : list[i] = sub
  /\ subscriptionId' = sub
  /\ loginPc' = "store"
  /\ UNCHANGED <<loginArgs, options, azureProfile, envFile, credentialChain, tenantId,
                 tenants, subscriptions, loginCalls, report, result>>
  /\ UNCHANGED callbackVars

\* storeProjectCredentialsInEnvFile, the return of setupProjectCredentials and
\* of login, and the report of loginCommand; fs.writeFile may reject
storeProjectCredentialsInEnvFile(written) ==
  /\ loginPc = "store"
  /\ LET new == newEnvFileLines(envFile, subscriptionId, tenantId,
                                options.clientId, options.clientSecret)
         returned == [credentialChain |-> credentialChain, subscriptionId |-> subscriptionId]
     IN IF new = <<>>
        THEN /\ UNCHANGED <<envFile, loginCalls>>
             /\ result' = returned
             /\ report' = Report(returned)
             /\ loginPc' = "done"
        ELSE IF written
        THEN /\ envFile' = oldEnvFileLines(envFile) \o new
             /\ loginCalls' = loginCalls \o <<"writeFile", "updateGitIgnore">>
             /\ result' = returned
             /\ report' = Report(returned)
             /\ loginPc' = "done"
        ELSE /\ loginCalls' = Append(loginCalls, "writeFile")
             /\ Caught
             /\ UNCHANGED envFile
  /\ UNCHANGED <<loginArgs, options, azureProfile, credentialChain, tenantId,
                 subscriptionId, tenants, subscriptions>>
  /\ UNCHANGED callbackVars

InitLogin ==
  /\ InitCallbacks
  /\ LoginNotStarted
  /\ azureProfile \in AzureProfiles
  /\ envFile \in EnvFiles

NextLogin ==
  \/ \E o \in LoginOptions : loginCommand(o)
  \/ \E outcome \in AuthOutcomes : Authenticated(outcome)
  \/ ProfileRead
  \/ \E r \in ListResults(TenantLists) : TenantsListed(r)
  \/ \E t \in {"", "t1", "t4"} : TenantChosen(t)
  \/ \E outcome \in AuthOutcomes : Reauthenticated(outcome)
  \/ \E r \in ListResults(SubscriptionLists) : SubscriptionsListed(r)
  \/ \E sub \in {"", "s1", "s4"} : SubscriptionChosen(sub)
  \/ \E written \in BOOLEAN : storeProjectCredentialsInEnvFile(written)

SpecLogin == InitLogin /\ [][NextLogin]_vars

\* ------------------------------------- storeProjectCredentialsInEnvFile alone
\* the number of calls of storeProjectCredentialsInEnvFile that are followed
MaxCalls == 2

\* the arguments of storeProjectCredentialsInEnvFile; "" stands for undefined
StoreArguments ==
  [tenantId : {"", "t1", "t4"}, subscriptionId : {"", "s1"},
   clientId : {"", "c1"}, clientSecret : {"", "p1"}]

StoreCalls ==
  Cardinality({ i \in DOMAIN loginCalls : loginCalls[i] = "storeProjectCredentialsInEnvFile" })

\* one call of storeProjectCredentialsInEnvFile with the arguments drawn at
\* the start; the caller is not followed
StoreCalled ==
  /\ loginPc = "store"
  /\ StoreCalls < MaxCalls
  /\ LET new == newEnvFileLines(envFile, subscriptionId, tenantId,
                                options.clientId, options.clientSecret)
     IN IF new = <<>>
        THEN /\ UNCHANGED envFile
             /\ loginCalls' = Append(loginCalls, "storeProjectCredentialsInEnvFile")
        ELSE /\ envFile' = oldEnvFileLines(envFile) \o new
             /\ loginCalls' = loginCalls \o <<"storeProjectCredentialsInEnvFile",
                                              "writeFile", "updateGitIgnore">>
  /\ UNCHANGED <<loginPc, loginArgs, options, azureProfile, credentialChain, tenantId,
                 subscriptionId, tenants, subscriptions, report, result>>
  /\ UNCHANGED callbackVars

InitStore ==
  /\ InitCallbacks
  /\ loginPc = "store"
  /\ options \in StoreArguments
  /\ loginArgs = options
  /\ tenantId = options.tenantId
  /\ subscriptionId = options.subscriptionId
  /\ credentialChain = { <<"credential", options.tenantId>> }
  /\ tenants = {}
  /\ subscriptions = {}
  /\ loginCalls = <<>>
  /\ report = "none"
  /\ result = NoResult
  /\ azureProfile = [kind |-> "missing", subscriptions |-> <<>>]
  /\ envFile \in EnvFiles

NextStore == StoreCalled

SpecStore == InitStore /\ [][NextStore]_vars

TypeOK ==
  /\ pc \in [Callbacks -> {"idle", "awaitToken", "awaitUser", "awaitRoles", "done", "threw"}]
  /\ \A c \in Callbacks : Len(calls[c]) <= 3

\* ------------------------------------------------- properties of a request
\* what the claims say about a request, read off the request itself

ProviderSupported(r) == normalizeAuthProvider(r.provider) \in SUPPORTED_CUSTOM_AUTH_PROVIDERS

CookiePassesValidation(r) == r.cookie.kind = "valid"

HasNonce(r) == \E a \in r.cookie.ctx : "authNonce" \in DOMAIN a

NonceOf(r) == (CHOOSE a \in r.cookie.ctx : TRUE)["authNonce"]

\* the URL parses and the hash of the cookie's nonce equals its state parameter
StateMatchesNonce(r) == r.url.ok /\ HasNonce(r) /\ r.url.state = hashStateGuid(NonceOf(r))

NonceExpired(r) == HasNonce(r) /\ r.now - NonceOf(r).issued > NonceTTL

ConfigPresent(r) == r.customAuth.configured

PassesValidation(r) ==
  /\ ProviderSupported(r) /\ CookiePassesValidation(r) /\ StateMatchesNonce(r)
  /\ ~NonceExpired(r) /\ ConfigPresent(r)

\* ---------------------------------------------- properties of a callback
Invoked(c) == pc[c] # "idle"

Ended(c) == pc[c] \in {"done", "threw"}

SessionCookieSet(c) ==
  \E i \in DOMAIN res[c].cookies :
    res[c].cookies[i].op = "set" /\ res[c].cookies[i].name = "StaticWebAppsAuthCookie"

AuthContextCookieDeleted(c) ==
  \E i \in DOMAIN res[c].cookies :
    res[c].cookies[i].op = "delete" /\ res[c].cookies[i].name = "StaticWebAppsAuthContextCookie"

\* the token endpoint answered with a body carrying the token field the
\* provider uses
TokenExchangeSucceeded(c) ==
  \E t \in tokenResp[c] :
    /\ t.kind \in {"json", "form"}
    /\ (IF providerNameOf(c) = "facebook" THEN "id_token" ELSE "access_token") \in t.fields

\* the user-info step (GET, or jwtDecode for facebook) produced a profile
UserInfoSucceeded(c) == \E u \in userResp[c] : u.kind = "profile"

NoOutboundCall(c) == calls[c] = <<>>

\* --------------------------------------------------------------- the claims

\* C1: a session cookie (StaticWebAppsAuthCookie) is in a callback's response
\* only if, in that callback, the auth-context cookie passed validation, the
\* hash of its nonce equalled the state parameter, the nonce was not expired,
\* and token exchange and user-info retrieval both succeeded.
C1_SessionCookieOnlyIfAllHeld ==
  \A c \in Callbacks :
    SessionCookieSet(c) =>
      /\ CookiePassesValidation(req[c])
      /\ StateMatchesNonce(req[c])
      /\ ~NonceExpired(req[c])
      /\ TokenExchangeSucceeded(c)
      /\ UserInfoSucceeded(c)

C1_Witness == \E c \in Callbacks : pc[c] = "done" /\ SessionCookieSet(c)

\* C2: a callback that has started any outbound call (token exchange,
\* user-info fetch, roles lookup) was invoked with a request that passes every
\* validation step: supported provider, valid cookie, nonce matching the
\* state, unexpired nonce, provider configuration present.  A request failing
\* any of them causes no outbound call.
C2_NoCallBeforeValidation ==
  \A c \in Callbacks :
    /\ ~NoOutboundCall(c) => PassesValidation(req[c])
    /\ (Invoked(c) /\ ~PassesValidation(req[c])) => (NoOutboundCall(c) /\ inflight[c] = {})

C2_Witness ==
  \E c \in Callbacks : calls[c] = <<"token", "user", "roles">> /\ PassesValidation(req[c])

RejectedByHandler(r) ==
  \/ ~ProviderSupported(r)
  \/ ~CookiePassesValidation(r)
  \/ r.url.ok /\ ~StateMatchesNonce(r)
  \/ StateMatchesNonce(r) /\ NonceExpired(r)

C4_ValidCallbackSetsSession ==
  \A c \in Callbacks :
    (Invoked(c) /\ PassesValidation(req[c]) /\ req[c].url.code = "good") =>
      /\ (TokenExchangeSucceeded(c) /\ pc[c] = "done") => userResp[c] # {}
      /\ ( /\ TokenExchangeSucceeded(c) /\ UserInfoSucceeded(c)
           /\ (req[c].customAuth.rolesSource = "" \/ rolesResp[c] # {}) )
         => /\ pc[c] = "done"
            /\ res[c].status = 302
            /\ SessionCookieSet(c)
            /\ AuthContextCookieDeleted(c)

C4_Witness ==
  \E c \in Callbacks :
    /\ providerNameOf(c) = "facebook" /\ PassesValidation(req[c])
    /\ req[c].url.code = "good" /\ TokenExchangeSucceeded(c) /\ UserInfoSucceeded(c)
    /\ pc[c] = "done" /\ res[c].status = 302
    /\ SessionCookieSet(c) /\ AuthContextCookieDeleted(c)

\* C5: for a provider identifier outside the supported set, whatever the
\* cookie, state and code, the callback has returned 400 text/plain with body
\* "Provider '<normalized name>' not found", has made no outbound call and
\* has set no session cookie.
C5_UnsupportedProvider ==
  \A c \in Callbacks :
    (Invoked(c) /\ ~ProviderSupported(req[c])) =>
      /\ pc[c] = "done"
      /\ res[c] = response(400, "text/plain",
                           <<"Provider '", normalizeAuthProvider(req[c].provider), "' not found">>,
                           "", <<>>)
      /\ NoOutboundCall(c)
      /\ ~SessionCookieSet(c)

C5_Witness ==
  \E c \in Callbacks :
    /\ Invoked(c) /\ req[c].provider = "OKTA" /\ res[c].status = 400
    /\ CookiePassesValidation(req[c]) /\ StateMatchesNonce(req[c])
    /\ req[c].url.code = "good" /\ ConfigPresent(req[c])

InvalidLoginRequest == response(401, "text/plain", <<"Invalid login request">>, "", <<>>)

\* C6: a callback for a supported provider whose request has no cookie header,
\* or whose cookie fails signature validation, has returned 401 "Invalid login
\* request" and has made no outbound call.
C6_MissingOrInvalidCookie ==
  \A c \in Callbacks :
    (Invoked(c) /\ ProviderSupported(req[c]) /\ ~CookiePassesValidation(req[c])) =>
      /\ pc[c] = "done"
      /\ res[c] = InvalidLoginRequest
      /\ NoOutboundCall(c)

C6_Witness ==
  \E c \in Callbacks :
    /\ Invoked(c) /\ ProviderSupported(req[c]) /\ req[c].cookie.kind = "invalid"
    /\ StateMatchesNonce(req[c]) /\ res[c].status = 401

\* C7: a callback (supported provider, valid cookie, parsable URL) whose state
\* parameter is not the hash of the nonce in the auth-context cookie, a
\* missing state, an undecodable cookie and a cookie without nonce included,
\* has returned 401 "Invalid login request" and has made no outbound call.
C7_StateMismatch ==
  \A c \in Callbacks :
    ( /\ Invoked(c) /\ ProviderSupported(req[c]) /\ CookiePassesValidation(req[c])
      /\ req[c].url.ok /\ ~StateMatchesNonce(req[c]) ) =>
      /\ pc[c] = "done"
      /\ res[c] = InvalidLoginRequest
      /\ NoOutboundCall(c)

C7_Witness ==
  \E c \in Callbacks :
    /\ Invoked(c) /\ ProviderSupported(req[c]) /\ CookiePassesValidation(req[c])
    /\ HasNonce(req[c]) /\ req[c].url.ok
    /\ req[c].url.state = <<"raw", NonceOf(req[c]).guid>>
    /\ res[c].status = 401

\* C8: a callback (supported provider, valid cookie) whose state matches the
\* nonce hash but whose nonce is older than its time-to-live has returned 401
\* "Login timed out. Please try again." and has made no outbound call.
C8_ExpiredNonce ==
  \A c \in Callbacks :
    ( /\ Invoked(c) /\ ProviderSupported(req[c]) /\ CookiePassesValidation(req[c])
      /\ StateMatchesNonce(req[c]) /\ NonceExpired(req[c]) ) =>
      /\ pc[c] = "done"
      /\ res[c] = response(401, "text/plain", <<"Login timed out. Please try again.">>, "", <<>>)
      /\ NoOutboundCall(c)

C8_Witness ==
  \E c \in Callbacks :
    /\ Invoked(c) /\ ProviderSupported(req[c]) /\ CookiePassesValidation(req[c])
    /\ StateMatchesNonce(req[c]) /\ NonceExpired(req[c]) /\ ConfigPresent(req[c])
    /\ res[c].body = <<"Login timed out. Please try again.">>

TokenExchangeFailed(c) == \E t \in tokenResp[c] : t.kind \in {"error", "jsonNull"}

UserInfoFailed(c) == \E u \in userResp[c] : u.kind # "profile"

\* C9: when, after validation passed, token exchange failed (the request
\* errored or reading the answer threw) or the user-info step or the claims
\* normalisation failed, the principal is null and the callback has returned
\* a 302 response whose only cookie instruction is the deletion of the
\* auth-context cookie.
C9_UpstreamFailureRedirectsWithoutSession ==
  \A c \in Callbacks :
    (PassesValidation(req[c]) /\ (TokenExchangeFailed(c) \/ UserInfoFailed(c))) =>
      /\ pc[c] = "done"
      /\ clientPrincipal[c] = {}
      /\ res[c].status = 302
      /\ ~SessionCookieSet(c)
      /\ res[c].cookies =
           << [op |-> "delete", name |-> "StaticWebAppsAuthContextCookie", value |-> {}] >>

C9_Witness ==
  \E c \in Callbacks :
    /\ TokenExchangeSucceeded(c) /\ UserInfoFailed(c) /\ req[c].customAuth.rolesSource # ""
    /\ pc[c] = "done" /\ res[c].status = 302 /\ Len(res[c].cookies) = 1

\* the principal carried by the session cookie of the response
SessionPrincipals(c) ==
  { (CHOOSE v \in res[c].cookies[i].value : TRUE)[2][2][2] :
      i \in { j \in DOMAIN res[c].cookies : res[c].cookies[j].op = "set" } }

RolesCallFailed(c) ==
  \E a \in rolesResp[c] : a.kind \in {"error", "nonJson", "jsonNull", "noRoles", "notIterable"}

\* C10: when a principal was obtained, a roles source is configured and the
\* roles call failed (network error, non-JSON body, no usable roles field),
\* the callback has returned 302 with the session cookie set, and the
\* principal in it has userRoles exactly <<"authenticated", "anonymous">>.
C10_RolesFailureKeepsDefaults ==
  \A c \in Callbacks :
    RolesCallFailed(c) =>
      /\ pc[c] = "done"
      /\ res[c].status = 302
      /\ SessionCookieSet(c)
      /\ AuthContextCookieDeleted(c)
      /\ \A p \in clientPrincipal[c] \cup SessionPrincipals(c) : p.userRoles = DefaultRoles

C10_Witness ==
  \E c \in Callbacks :
    /\ req[c].customAuth.rolesSource # "" /\ UserInfoSucceeded(c)
    /\ \E a \in rolesResp[c] : a.kind = "noRoles"
    /\ \E p \in SessionPrincipals(c) : p.userRoles = DefaultRoles

\* C11: when the roles call answered with a roles array R, the callback has
\* returned and the userRoles of the principal in its session cookie is
\* <<"authenticated", "anonymous">> followed by the elements of R in order,
\* duplicates included; and in every session cookie the two default roles are
\* the first two entries of userRoles.
C11_RolesAppendedInOrder ==
  \A c \in Callbacks :
    /\ \A a \in rolesResp[c] :
         a.kind = "array" =>
           /\ pc[c] = "done" /\ SessionCookieSet(c)
           /\ \A p \in SessionPrincipals(c) : p.userRoles = DefaultRoles \o a.roles
    /\ \A p \in SessionPrincipals(c) :
         Len(p.userRoles) >= 2 /\ SubSeq(p.userRoles, 1, 2) = DefaultRoles

C11_Witness ==
  \E c \in Callbacks :
    /\ \E a \in rolesResp[c] : a.kind = "array" /\ a.roles = <<"authenticated", "admin">>
    /\ \E p \in SessionPrincipals(c) :
         p.userRoles = <<"authenticated", "anonymous", "authenticated", "admin">>

\* C12: httpTrigger never lets a failure escape as an exception: whatever the
\* input and whatever its collaborators do, a callback that has ended has
\* returned, it has not thrown.
C12_NoFailureEscapes ==
  \A c \in Callbacks : Ended(c) => pc[c] = "done"

\* C13: within one callback the outbound calls are sequential and made at
\* most once each: the calls started are a beginning of token, user-info,
\* roles (token, roles for facebook, whose profile is decoded locally); at most
\* one call is in flight; the user-info fetch has started only after the
\* token exchange was answered with a token, the roles call only after the
\* user-info step produced a principal; after a failed step no further call
\* is started.
C13_CallsSequentialOnce ==
  \A c \in Callbacks :
    /\ calls[c] \in { <<>>, <<"token">>, <<"token", "user">>,
                      <<"token", "user", "roles">>, <<"token", "roles">> }
    /\ Cardinality(inflight[c]) <= 1
    /\ (Len(calls[c]) >= 2 /\ calls[c][2] = "user") =>
         /\ TokenExchangeSucceeded(c) /\ authToken[c] # "" /\ "token" \notin inflight[c]
         /\ providerNameOf(c) # "facebook"
    /\ (Len(calls[c]) >= 2 /\ calls[c][Len(calls[c])] = "roles") =>
         /\ UserInfoSucceeded(c) /\ clientPrincipal[c] # {}
         /\ inflight[c] \subseteq {"roles"}
    /\ TokenExchangeFailed(c) => calls[c] = <<"token">> /\ inflight[c] = {}
    /\ UserInfoFailed(c) => calls[c] \in { <<"token">>, <<"token", "user">> } /\ inflight[c] = {}
    /\ rolesResp[c] # {} => inflight[c] = {} /\ pc[c] = "done"

C13_Witness ==
  \E c \in Callbacks :
    /\ calls[c] = <<"token", "user", "roles">> /\ inflight[c] = {}
    /\ RolesCallFailed(c) /\ pc[c] = "done"

\* the principal a callback ends with when it runs alone on request r and
\* gets the answers t, u and ro (each {} when the step was never reached)
PrincipalAlone(r, t, u, ro) ==
  LET providerName == normalizeAuthProvider(r.provider)
      authConfigs == CHOOSE a \in checkCustomAuthConfigFields(providerName, r.customAuth) : TRUE
      withToken == { x \in t : ExtractToken(providerName, x) # "" }
      p1 == IF withToken = {} THEN {}
            ELSE UNION { PrincipalFromUser(providerName, x, authConfigs) : x \in u }
  IN IF ro = {} THEN p1 ELSE { MergeRoles(p, x) : p \in p1, x \in ro }

\* the responses a callback can end with when it runs alone
ResponsesAlone(r, t, u, ro) ==
  LET v == Validate(r)
  IN CASE v \in {"provider", "cookie", "nonce", "expired"} -> { ErrorResponse(v, r) }
       [] v = "url" -> { NoResponse }
       [] v = "config" -> ConfigErrorResponses \cup { NoResponse }
       [] OTHER -> { FinalResponse(CHOOSE a \in decodeAuthContextCookie(r.cookie) : TRUE,
                                   PrincipalAlone(r, t, u, ro)) }

\* C14: under any interleaving of concurrent callbacks at their await points,
\* the response of each callback that has ended (status, cookies with the
\* principal and its userRoles, redirect location) is the response it gives
\* when it runs alone on its own request and its own answers: nothing of
\* another callback shows in it.
C14_CallbacksIsolated ==
  \A c \in Callbacks :
    Ended(c) =>
      res[c] \in ResponsesAlone(req[c], tokenResp[c], userResp[c], rolesResp[c])

C14_Witness ==
  \E c, d \in Callbacks :
    /\ c # d
    /\ pc[c] = "done" /\ rolesResp[c] # {} /\ SessionCookieSet(c)
    /\ pc[d] = "done" /\ SessionCookieSet(d) /\ providerNameOf(d) = "facebook"
    /\ SessionPrincipals(c) # SessionPrincipals(d)
    /\ \E p \in SessionPrincipals(c) : p.userRoles = <<"authenticated", "anonymous", "admin">>
    /\ \E p \in SessionPrincipals(d) : p.userRoles = DefaultRoles

\* the validation steps a request would fail, each taken on its own
FailingSteps(r) ==
  { s \in {"provider", "cookie", "nonce", "expired", "config"} :
      \/ s = "provider" /\ ~ProviderSupported(r)
      \/ s = "cookie" /\ ~CookiePassesValidation(r)
      \/ s = "nonce" /\ ~StateMatchesNonce(r)
      \/ s = "expired" /\ NonceExpired(r)
      \/ s = "config" /\ ~ConfigPresent(r) }

\* C15: the validation steps apply in the order provider, cookie signature,
\* nonce/state match, nonce expiry, provider config: the response of a
\* callback (whose URL parses, once the cookie has been accepted) is the one
\* of the earliest step its request fails, whatever later steps it would fail
\* too, and a request that fails any step causes no outbound call.
C15_EarliestFailureAnswers ==
  \A c \in Callbacks :
    LET r == req[c]
        f == FailingSteps(r)
    IN (Invoked(c) /\ f # {} /\ (r.url.ok \/ f \cap {"provider", "cookie"} # {})) =>
         /\ pc[c] = "done" /\ NoOutboundCall(c)
         /\ "provider" \in f =>
              /\ res[c].status = 400
              /\ res[c].body = <<"Provider '", normalizeAuthProvider(r.provider), "' not found">>
         /\ ("provider" \notin f /\ "cookie" \in f) => res[c] = InvalidLoginRequest
         /\ (f \cap {"provider", "cookie"} = {} /\ "nonce" \in f) => res[c] = InvalidLoginRequest
         /\ (f \cap {"provider", "cookie", "nonce"} = {} /\ "expired" \in f) =>
              res[c].body = <<"Login timed out. Please try again.">>
         /\ f = {"config"} => res[c] \in ConfigErrorResponses \cup {NoResponse}

C15_Witness ==
  \E c \in Callbacks :
    /\ Invoked(c) /\ FailingSteps(req[c]) = {"nonce", "expired", "config"}
    /\ HasNonce(req[c]) /\ req[c].url.ok
    /\ res[c] = InvalidLoginRequest

\* the redirect target carried by the auth-context cookie of a request
RedirectOf(r) ==
  LET a == CHOOSE x \in r.cookie.ctx : TRUE
  IN IF "postLoginRedirectUri" \in DOMAIN a THEN a["postLoginRedirectUri"] ELSE "/"

\* C16: a callback that passed every validation step and has ended has
\* returned 302 with an empty body and Location equal to the
\* postLoginRedirectUri of its auth-context cookie, "/" when the field is
\* absent, with or without a principal and whatever the query carries.
C16_RedirectAfterValidation ==
  \A c \in Callbacks :
    (Ended(c) /\ PassesValidation(req[c])) =>
      /\ pc[c] = "done"
      /\ res[c].status = 302
      /\ res[c].body = <<>>
      /\ res[c].location = RedirectOf(req[c])

C16_Witness ==
  \E c \in Callbacks :
    /\ pc[c] = "done" /\ PassesValidation(req[c]) /\ clientPrincipal[c] = {}
    /\ req[c].url.code = "bad" /\ res[c].status = 302 /\ res[c].location = "/home"

\* the standard claim types, each with the profile fields it is read from
StandardClaims ==
  { [typ |-> "http://schemas.xmlsoap.org/ws/2005/05/identity/claims/emailaddress",
     from |-> <<"login", "email", "data.username">>],
    [typ |-> "name", from |-> <<"name", "data.name">>],
    [typ |-> "picture", from |-> <<"picture">>],
    [typ |-> "http://schemas.xmlsoap.org/ws/2005/05/identity/claims/givenname",
     from |-> <<"given_name">>],
    [typ |-> "http://schemas.xmlsoap.org/ws/2005/05/identity/claims/surname",
     from |-> <<"family_name">>],
    [typ |-> "http://schemas.xmlsoap.org/ws/2005/05/identity/claims/nameidentifier",
     from |-> <<"id", "data.id">>],
    [typ |-> "email_verified", from |-> <<"verified_email">>] }

StandardTyps == { s.typ : s \in StandardClaims }

GithubTyps == { GithubTyp(ProfileKeys[i]) : i \in DOMAIN ProfileKeys }

\* the first truthy value among the fields, "" when there is none
FirstTruthy(user, from) ==
  LET hits == { i \in DOMAIN from : from[i] \in DOMAIN user /\ user[from[i]] # "" }
  IN IF hits = {} THEN ""
     ELSE user[from[CHOOSE i \in hits : \A j \in hits : i <= j]]

ClaimTyps(p) == { p.claims[i].typ : i \in DOMAIN p.claims }

ClaimSet(p) == { p.claims[i] : i \in DOMAIN p.claims }

\* the profile a callback's principal was built from
ProfileOf(c) == (CHOOSE u \in userResp[c] : TRUE).profile

\* iss, azp and aud are always there; urn:github:<key> is there for every key
\* of the raw profile if and only if the provider is github
AlwaysAndGithubClaims(c, p) ==
  /\ {"iss", "azp", "aud"} \subseteq ClaimTyps(p)
  /\ \A i \in DOMAIN ProfileKeys :
       GithubTyp(ProfileKeys[i]) \in ClaimTyps(p)
         <=> (providerNameOf(c) = "github" /\ ProfileKeys[i] \in DOMAIN ProfileOf(c))
  /\ ClaimTyps(p) \subseteq {"iss", "azp", "aud"} \cup StandardTyps \cup GithubTyps
  /\ Len(p.claims) = Cardinality(ClaimTyps(p))

\* C17 as stated: in every principal, iss, azp and aud are there, each
\* standard claim is there if and only if its source field is present in the
\* raw profile, and the urn:github claims are there if and only if the
\* provider is github.
C17_ClaimsIffSourcePresent ==
  \A c \in Callbacks : \A p \in clientPrincipal[c] :
    /\ AlwaysAndGithubClaims(c, p)
    /\ \A s \in StandardClaims :
         s.typ \in ClaimTyps(p)
           <=> (\E i \in DOMAIN s.from : s.from[i] \in DOMAIN ProfileOf(c))

\* C17 amended: in every principal, iss, azp and aud are there, each standard
\* claim is there if and only if one of its source fields has a truthy value,
\* and it carries the first such value; the urn:github claims are there, one
\* per key of the raw profile with the key's value, if and only if the
\* provider is github.  A non-GitHub profile {login, name, picture} yields
\* exactly the email-address, name, picture, iss, azp and aud claims.
C17_ClaimsIffSourceTruthy ==
  \A c \in Callbacks : \A p \in clientPrincipal[c] :
    /\ AlwaysAndGithubClaims(c, p)
    /\ \A s \in StandardClaims :
         /\ s.typ \in ClaimTyps(p) <=> FirstTruthy(ProfileOf(c), s.from) # ""
         /\ \A x \in ClaimSet(p) : x.typ = s.typ => x.val = FirstTruthy(ProfileOf(c), s.from)
    /\ \A i \in DOMAIN ProfileKeys : \A x \in ClaimSet(p) :
         x.typ = GithubTyp(ProfileKeys[i]) => x.val = ProfileOf(c)[ProfileKeys[i]]
    /\ (providerNameOf(c) # "github" /\ DOMAIN ProfileOf(c) = {"login", "name", "picture"}) =>
         ClaimTyps(p) = {"iss", "azp", "aud", "name", "picture",
                         "http://schemas.xmlsoap.org/ws/2005/05/identity/claims/emailaddress"}

C17_Witness ==
  \E c \in Callbacks : \E p \in clientPrincipal[c] :
    /\ providerNameOf(c) = "google"
    /\ "verified_email" \in DOMAIN ProfileOf(c) /\ ProfileOf(c)["verified_email"] = ""
    /\ "email_verified" \notin ClaimTyps(p) /\ "name" \in ClaimTyps(p)

\* the field the token is read from: id_token for facebook, access_token otherwise
ExpectedTokenField(provider) == IF provider = "facebook" THEN "id_token" ELSE "access_token"

\* the token exchange answered with a parsable body that has no token in the
\* expected field
NoTokenInExpectedField(c) ==
  \E t \in tokenResp[c] :
    /\ t.kind \in {"json", "form"}
    /\ ExpectedTokenField(providerNameOf(c)) \notin t.fields

\* C18: when the token exchange completes without error but the parsed
\* response has no token in the expected field (access_token, or id_token for
\* facebook), no user-info fetch is started, no principal is built, and the
\* callback redirects with no session cookie.
C18_NoTokenNoUserFetch ==
  \A c \in Callbacks :
    NoTokenInExpectedField(c) =>
      /\ pc[c] = "done"
      /\ calls[c] = <<"token">>
      /\ userResp[c] = {} /\ rolesResp[c] = {}
      /\ clientPrincipal[c] = {}
      /\ res[c].status = 302
      /\ ~SessionCookieSet(c)
      /\ AuthContextCookieDeleted(c)

C18_Witness ==
  \E c \in Callbacks : \E t \in tokenResp[c] :
    /\ providerNameOf(c) = "facebook"
    /\ t.kind = "json" /\ t.fields = {"access_token"}
    /\ pc[c] = "done" /\ calls[c] = <<"token">>
    /\ res[c].status = 302 /\ ~SessionCookieSet(c)

\* ---------------------------------------------------- properties of swa login
LoginCalled(name) == \E i \in DOMAIN loginCalls : loginCalls[i] = name

\* the azure profile exists, reads as JSON and marks a subscription as default
HasDefaultSubscription ==
  azureProfile.kind = "json" /\ FindDefault(azureProfile.subscriptions) # {}

DefaultSubscription == CHOOSE d \in FindDefault(azureProfile.subscriptions) : TRUE

\* C19: once login has consulted the azure profile, if the file exists and
\* holds a default subscription then options.tenantId and
\* options.subscriptionId are that subscription's values, whatever the caller
\* supplied, and tenants are neither listed nor prompted for; if the file is
\* missing, unreadable or has no default subscription, options are as the
\* caller gave them.
C19_DefaultSubscriptionReplacesOptions ==
  LoginCalled("pathExists") =>
    IF HasDefaultSubscription
    THEN /\ options = [loginArgs EXCEPT !.tenantId = DefaultSubscription.tenantId,
                                        !.subscriptionId = DefaultSubscription.id]
         /\ ~LoginCalled("listTenants")
         /\ ~LoginCalled("chooseTenant")
         /\ tenants = {}
    ELSE options = loginArgs

C19_Witness ==
  /\ loginPc = "done" /\ report = "success"
  /\ HasDefaultSubscription
  /\ loginArgs.tenantId = "t1" /\ loginArgs.subscriptionId = "s1"
  /\ options.tenantId = "t3" /\ options.subscriptionId = "s3"
  /\ ~LoginCalled("listTenants")

\* C20: the env file is written only after tenant and subscription resolution
\* both finished without error; when no tenant id is given and the tenant
\* list is empty, or no subscription id is given and the subscription list is
\* empty, the command ends with the failure report and without a write; the
\* success report is given only when login returned both a credential chain
\* and a subscription id.
C20_StoreOnlyAfterResolution ==
  /\ LoginCalled("writeFile") =>
       /\ tenants # {<<>>} /\ subscriptions # {<<>>}
       /\ options.tenantId = "" => tenants # {}
       /\ options.subscriptionId = "" => subscriptions # {}
       /\ loginPc = "done"
  /\ (options.tenantId = "" /\ tenants = {<<>>}) =>
       /\ loginPc = "done" /\ report = "error"
       /\ ~LoginCalled("writeFile") /\ ~LoginCalled("listSubscriptions")
  /\ (options.subscriptionId = "" /\ subscriptions = {<<>>}) =>
       /\ loginPc = "done" /\ report = "error"
       /\ ~LoginCalled("writeFile")
  /\ report = "success" =>
       /\ result.credentialChain # {} /\ result.subscriptionId # ""

C20_Witness ==
  /\ loginPc = "done" /\ report = "error"
  /\ options.subscriptionId = "" /\ subscriptions = {<<>>}
  /\ \E list \in tenants : Len(list) = 1
  /\ ~LoginCalled("writeFile")

\* -------------------------- properties of storeProjectCredentialsInEnvFile
\* the AZURE_* entries the arguments define
DefinedEntries ==
  { e \in { <<"AZURE_SUBSCRIPTION_ID", subscriptionId>>, <<"AZURE_TENANT_ID", tenantId>>,
            <<"AZURE_CLIENT_ID", options.clientId>>,
            <<"AZURE_CLIENT_SECRET", options.clientSecret>> } : e[2] # "" }

FileLines(file) == { file[i] : i \in DOMAIN file }

\* the entries the arguments define that the file does not contain
MissingEntries == DefinedEntries \ FileLines(envFile)

\* the key=value pairs dotenv parses from a file: for each key, its last line
ParsedPairs(file) ==
  { file[i] : i \in { j \in DOMAIN file :
                        \A k \in DOMAIN file : file[k][1] = file[j][1] => k <= j } }

\* the step calls fs.writeFile
Wrote ==
  \E i \in DOMAIN loginCalls' : i > Len(loginCalls) /\ loginCalls'[i] = "writeFile"

StoreWritesOnlyMissing ==
  (Wrote \/ envFile' # envFile) => MissingEntries # {}

StoreKeepsParsedPairs ==
  Wrote =>
    /\ ParsedPairs(envFile) \cup MissingEntries = FileLines(envFile')
    /\ \A i, j \in DOMAIN envFile' :
         (envFile'[i] \in ParsedPairs(envFile) /\ envFile'[j] \in MissingEntries) => i < j

StoreSecondCallWritesNothing ==
  StoreCalls >= 1 => (~Wrote /\ envFile' = envFile)

\* C21 as stated: storeProjectCredentialsInEnvFile writes the env file only
\* when one of the four AZURE_* entries is defined and not contained in the
\* file, the written file keeps every key=value pair parsed from the previous
\* file ahead of the new entries, and a second call with the same arguments
\* writes nothing.
C21_StoreIdempotentPreserving ==
  [][StoreWritesOnlyMissing /\ StoreKeepsParsedPairs /\ StoreSecondCallWritesNothing]_vars

\* the part of C21 that holds: a write happens only for a missing entry and
\* keeps the parsed pairs ahead of the new entries
C21_StoreWritesAndKeeps ==
  [][StoreWritesOnlyMissing /\ StoreKeepsParsedPairs]_vars

\* a second call has written again: the first write dropped the line
\* AZURE_TENANT_ID=t1 that had kept the tenant entry out of the new lines
C21_SecondWrite ==
  /\ StoreCalls = 2
  /\ Cardinality({ i \in DOMAIN loginCalls : loginCalls[i] = "writeFile" }) = 2

====
